---- MODULE Spec2Model ----
(***************************************************************************)
(* Model of the Blueprint orchestrator core: the task store (db.py), the   *)
(* git helper (utils/git_helper.py), the dispatcher (phase1_dispatcher.py),*)
(* the specialists (phase2_specialists.py), QA (phase3_qa.py), the retry   *)
(* handler (retry_handler.py) and the merger (phase4_merger.py).           *)
(***************************************************************************)
EXTENDS Integers, Sequences, FiniteSets, TLC

\* ---------------------------------------------------------------- bounds
\* rows of the tasks table
NumTasks == 2
\* validation records one task may collect
MaxValidations == 4
\* error_handling.max_retries (the default is 3)
max_retries == 1

Tasks == 1..NumTasks
\* an id that has no row in the tasks table
Ghost == 0
AllIds == Tasks \cup {Ghost}

NULL == "null"

\* ------------------------------------------------------- db.py enumerations
CAHIER_READY == "cahier_ready"
SPEC_READY == "spec_ready"
DISPATCHED == "dispatched"
SPECIALIST_WORKING == "specialist_working"
CODE_DONE == "code_done"
VALIDATION_PENDING == "validation_pending"
VALIDATION_FAILED == "validation_failed"
VALIDATION_PASSED == "validation_passed"
MERGE_CONFLICT == "merge_conflict"
MERGED == "merged"
FAILED == "failed"

TaskStatus ==
  {CAHIER_READY, SPEC_READY, DISPATCHED, SPECIALIST_WORKING, CODE_DONE,
   VALIDATION_PENDING, VALIDATION_FAILED, VALIDATION_PASSED, MERGE_CONFLICT,
   MERGED, FAILED}

GO == "go"
NO_GO == "no_go"
PENDING == "pending"
ValidationStatus == {PENDING, GO, NO_GO}

ValidatorTypes == {"logic", "tech"}

\* --------------------------------------------------------- configuration
\* phase1.check_dependencies, default True
check_dependencies_enabled == TRUE
\* phase4.cleanup_after_merge, default True
cleanup_after_merge == TRUE
\* phase4.require_human_validation, default True
require_human_validation == TRUE
\* phase4.batch_merge_enabled, default True
batch_merge_enabled == TRUE
\* phase4.max_batch_size, default 5
max_batch_size == 5
\* error_handling.enable_retry_loop, default True
enable_retry == TRUE
\* phase2.max_parallel_specialists, default 3
max_parallel_specialists == 1
\* security.access_control.enabled, default False: the verifier consults the
\* access_violations table only when it is set
access_control_enabled == TRUE
\* rows the access_violations table holds at most
MaxAudit == 2
\* patterns an allow or exclude list given to merge_access_configs holds at most
MaxList == 2
\* phase1.max_tasks, default 50
max_tasks == 1
\* the max_iterations argument of watch_and_dispatch, default 100
max_iterations == 3
\* gemini.max_retries, the attempts research makes for one query
gemini_max_retries == 2
\* gemini.cache_results, default False
cache_results == TRUE
\* queries one batch_research call is given at most
MaxQueries == 2

VARIABLES
  status,          \* tasks.status
  deps,            \* tasks.dependencies
  branch_name,     \* tasks.branch_name
  worktree_path,   \* tasks.worktree_path
  retry_count,     \* tasks.retry_count
  last_feedback,   \* tasks.last_feedback
  validations,     \* validations table: the rows of each task, in validation_id order
  agents,          \* status of the agent Specialist-<task_id>, "none" if no row
  branches,        \* tasks whose branch feature/<task_id> exists in the repository
  worktrees,       \* number of worktree directories registered for a task
  ahead,           \* tasks whose branch holds commits not yet in the base branch
  mainLine,        \* commits added to the base branch, oldest first
  conflicted,      \* files in conflicted state in the repository (a merge is in progress)
  p4queue,         \* task ids the running merge phase has still to merge
  p2wait,          \* tasks whose specialist waits for the semaphore of the running phase 2
  running,         \* operations in progress, as <<kind, task>>
  access,          \* the last call of validate_file_access: its inputs and result
  access_violations, \* access_violations table: its rows in violation_id order
  merged,          \* the last call of merge_access_configs: its inputs and result
  dispatched_count, \* watch_and_dispatch: tasks the running call has dispatched
  research,        \* GeminiResearcher: its cache and its last batch_research call
  watch,           \* watch_and_dispatch: where the running call is in its loop
  merge_conflict,  \* the last merge that met a conflict: what merge_branch returned,
                   \* what the report conflict_reports/<task_id>_conflict.json lists,
                   \* and (history) the files the conflict was on
  edges,           \* history: the (old, new) pairs of the status changes of the last operation
  requeues,        \* history: times a task went validation_failed -> code_done
  lastOp           \* history: the last operation and its outcome

vars == <<status, deps, branch_name, worktree_path, retry_count, last_feedback,
          validations, agents, branches, worktrees, ahead, mainLine, conflicted,
          p4queue, p2wait, running, access, access_violations, merged,
          dispatched_count, research, watch, merge_conflict, edges, requeues, lastOp>>

dbVars == <<status, branch_name, worktree_path, retry_count, last_feedback,
            validations, agents>>
gitVars == <<branches, worktrees, ahead, mainLine, conflicted>>
fanVars == <<p2wait, running>>
aclVars == <<access, access_violations, merged, dispatched_count, research, watch>>
repVars == <<merge_conflict>>

\* no phase is in the middle of its work
Idle == p4queue = <<>> /\ p2wait = {} /\ running = {}

\* ------------------------------------------------------------ git_helper.py
BranchOf(t) == <<"feature", t>>
PathOf(t) == <<".worktrees", t>>

\* GitHelper.create_worktree: "worktree add -b" and, when that fails with
\* "already exists", "worktree add <path> <branch>"; raises otherwise.
\* gitFault: a git command fails for a reason of its own (the checkout of the
\* base branch, the disk).  With the worktree directory still there the
\* second "worktree add" fails as well and its error leaves the method.
create_worktree(br, wt, t, gitFault) ==
  IF gitFault
    THEN [raised |-> "git_error", reused |-> FALSE, branches |-> br, worktrees |-> wt]
  ELSE IF t \notin br /\ wt[t] = 0
    THEN [raised |-> "no", reused |-> FALSE, branches |-> br \cup {t},
          worktrees |-> [wt EXCEPT ![t] = 1]]
  ELSE IF t \in br /\ wt[t] = 0
    THEN [raised |-> "no", reused |-> TRUE, branches |-> br,
          worktrees |-> [wt EXCEPT ![t] = 1]]
  ELSE [raised |-> "exists_error", reused |-> FALSE, branches |-> br, worktrees |-> wt]

\* ------------------------------------------------------------------- db.py
\* UPDATE tasks SET status = ? WHERE task_id = ?
update_task_status(st, t, s) == IF t \in DOMAIN st THEN [st EXCEPT ![t] = s] ELSE st

\* variant: the UPDATE has no WHERE clause
set_task_branch_no_where(f, t, v) == [u \in DOMAIN f |-> v]

\* UPDATE tasks SET branch_name = ?, worktree_path = ? WHERE task_id = ?,
\* applied to one of the two columns
set_task_branch(f, t, v) == [f EXCEPT ![t] = v]

\* the (old, new) pairs of the status changes between two tasks tables
Changed(st1, st2) == {<<st1[t], st2[t]>> : t \in {u \in Tasks : st1[u] # st2[u]}}

\* ------------------------------------------------------ phase1_dispatcher.py
\* variant: a dependency only has to exist
check_dependencies_exists(st, d) ==
  \A x \in d : x \in Tasks

\* variant: a dependency counts once it passed validation, which a merged
\* task no longer shows
check_dependencies_validated(st, d) ==
  \A x \in d : x \in Tasks /\ st[x] = VALIDATION_PASSED

\* PhaseDispatcher._check_dependencies: every dependency names a task whose
\* status is merged
check_dependencies(st, d) ==
  \A x \in d : x \in Tasks /\ st[x] = MERGED

DispatchResult(t, gitFault) ==
  IF t \notin Tasks THEN "not_found"
  ELSE IF check_dependencies_enabled /\ ~check_dependencies(status, deps[t])
    THEN "deps_unmet"
  ELSE LET c == create_worktree(branches, worktrees, t, gitFault)
       IN IF c.raised # "no" THEN c.raised
          ELSE IF c.reused THEN "ok_reused" ELSE "ok_new"

dispatch_task(t, gitFault) ==
  LET res == DispatchResult(t, gitFault)
      c == create_worktree(branches, worktrees, t, gitFault)
  IN /\ lastOp' = [op |-> "dispatch", task |-> t, res |-> res]
     /\ IF res \in {"ok_new", "ok_reused"}
          THEN /\ branches' = c.branches
               /\ worktrees' = c.worktrees
               /\ branch_name' = set_task_branch(branch_name, t, BranchOf(t))
               /\ worktree_path' = set_task_branch(worktree_path, t, PathOf(t))
               /\ status' = update_task_status(status, t, DISPATCHED)
          ELSE UNCHANGED <<branches, worktrees, branch_name, worktree_path,
                           status>>
     /\ edges' = Changed(status, status')
     /\ UNCHANGED <<deps, retry_count, last_feedback, validations, agents,
                    ahead, mainLine, conflicted, p4queue, requeues>>

\* the git faults that make a difference to dispatch_task(t)
DispatchFaults(t) ==
  IF DispatchResult(t, FALSE) \in {"not_found", "deps_unmet", "exists_error"}
    THEN {FALSE} ELSE BOOLEAN

\* an explicit dispatch request for one task id
DispatchTask ==
  /\ Idle
  /\ UNCHANGED <<fanVars, aclVars, repVars>>
  /\ \E t \in AllIds : \E gitFault \in DispatchFaults(t) : dispatch_task(t, gitFault)

\* ------------------------------------------------------ phase2_specialists.py
\* SpecialistAgent.implement for one task; o is what the worker run does:
\* "raise" (run_specialist raises before implement), "no_cahier", "error", "ok"
ImplementOutcomes(t) ==
  IF agents[t] # "none" THEN {"raise"} ELSE {"raise", "no_cahier", "error", "ok"}

implement_mid(st, t, o) ==
  IF o = "raise" THEN st ELSE update_task_status(st, t, SPECIALIST_WORKING)

implement(st, t, o) ==
  IF o = "ok" THEN update_task_status(implement_mid(st, t, o), t, CODE_DONE)
  ELSE implement_mid(st, t, o)

get_tasks_by_status(st, s) ==
  SelectSeq([i \in 1..NumTasks |-> i], LAMBDA t : st[t] = s)

Range(seq) == {seq[i] : i \in 1..Len(seq)}

RunPhase2 ==
  /\ Idle
  /\ UNCHANGED <<fanVars, aclVars, repVars>>
  /\ LET tasks == Range(get_tasks_by_status(status, DISPATCHED))
     IN \E o \in [tasks -> {"raise", "no_cahier", "error", "ok"}] :
          /\ \A t \in tasks : o[t] \in ImplementOutcomes(t)
          /\ LET mid == [t \in Tasks |->
                           IF t \in tasks THEN implement_mid(status, t, o[t])[t]
                           ELSE status[t]]
             IN /\ status' = [t \in Tasks |->
                                IF t \in tasks THEN implement(status, t, o[t])[t]
                                ELSE status[t]]
                /\ edges' = Changed(status, mid) \cup Changed(mid, status')
          /\ agents' = [t \in Tasks |->
                          IF t \in tasks /\ o[t] # "raise"
                            THEN CASE o[t] = "ok" -> "completed"
                                   [] o[t] = "error" -> "error"
                                   [] OTHER -> "working"
                            ELSE agents[t]]
          /\ ahead' = ahead \cup {t \in tasks : o[t] = "ok"}
          /\ lastOp' = [op |-> "phase2", task |-> Ghost,
                        res |-> IF tasks = {} THEN "no_tasks" ELSE "done"]
  /\ UNCHANGED <<deps, branch_name, worktree_path, retry_count, last_feedback,
                 validations, branches, worktrees, mainLine, conflicted,
                 p4queue, requeues>>

\* run_phase2 step by step.  gather creates one run_specialist per
\* dispatched task; each waits for the semaphore
Phase2Begin ==
  /\ Idle
  /\ get_tasks_by_status(status, DISPATCHED) # <<>>
  /\ p2wait' = Range(get_tasks_by_status(status, DISPATCHED))
  /\ lastOp' = [op |-> "phase2_begin", task |-> Ghost, res |-> "started"]
  /\ edges' = {}
  /\ UNCHANGED <<dbVars, deps, gitVars, p4queue, running, aclVars, repVars, requeues>>

\* variant: the specialists are gathered without the semaphore
semaphore_free_always(r) == TRUE

\* asyncio.Semaphore(max_parallel): the value is above zero
semaphore_free(r) ==
  Cardinality({o \in r : o[1] = "implement"}) < max_parallel_specialists

\* "async with semaphore" is entered by a waiting run_specialist
SpecialistStart ==
  /\ \E t \in p2wait :
       /\ semaphore_free(running)
       /\ running' = running \cup {<<"implement", t>>}
       /\ p2wait' = p2wait \ {t}
       /\ lastOp' = [op |-> "specialist_start", task |-> t, res |-> "started"]
  /\ edges' = {}
  /\ UNCHANGED <<dbVars, deps, gitVars, p4queue, aclVars, repVars, requeues>>

\* a run_specialist ends (returns or raises) and leaves the semaphore; when
\* it is the last one, gather returns and the phase is over
SpecialistEnd ==
  /\ \E t \in Tasks : \E o \in ImplementOutcomes(t) :
       /\ <<"implement", t>> \in running
       /\ running' = running \ {<<"implement", t>>}
       /\ status' = implement(status, t, o)
       /\ edges' = Changed(status, implement_mid(status, t, o))
                   \cup Changed(implement_mid(status, t, o), status')
       /\ agents' = [agents EXCEPT ![t] =
                       CASE o = "raise" -> @
                         [] o = "ok" -> "completed"
                         [] o = "error" -> "error"
                         [] OTHER -> "working"]
       /\ ahead' = IF o = "ok" THEN ahead \cup {t} ELSE ahead
       /\ lastOp' = IF p2wait = {} /\ running' = {}
                      THEN [op |-> "phase2", task |-> Ghost, res |-> "done"]
                      ELSE [op |-> "specialist_end", task |-> t, res |-> o]
  /\ UNCHANGED <<deps, branch_name, worktree_path, retry_count, last_feedback,
                 validations, branches, worktrees, mainLine, conflicted,
                 p4queue, p2wait, aclVars, repVars, requeues>>

\* ----------------------------------- phase1_dispatcher.py, the polling loop
\* variant: an iteration takes every ready task
Slice_uncapped ==
  get_tasks_by_status(status, CAHIER_READY)

\* watch_and_dispatch: the tasks one iteration of the loop hands to
\* dispatch_task, ready_tasks[:max_tasks - dispatched_count]
Slice ==
  LET ready_tasks == get_tasks_by_status(status, CAHIER_READY)
      n == max_tasks - dispatched_count
  IN SubSeq(ready_tasks, 1, IF Len(ready_tasks) < n THEN Len(ready_tasks) ELSE n)

\* what dispatch_task(t) can do in the present state.  Faults names the
\* points after create_worktree at which the call may be cut short, by an
\* exception of the store or by the end of the process: "after_create"
\* (before set_task_branch), "after_branch" (before update_task_status).
DispatchOutcomes(t, Faults) ==
  {DispatchResult(t, gitFault) : gitFault \in DispatchFaults(t)}
  \cup IF DispatchResult(t, FALSE) \in {"ok_new", "ok_reused"} THEN Faults ELSE {}

\* one iteration of the loop of watch_and_dispatch that found ready tasks
watch_iteration(Faults) ==
  /\ Idle
  /\ dispatched_count < max_tasks
  /\ Slice # <<>>
  /\ \E o \in [Range(Slice) -> {"deps_unmet", "git_error", "exists_error", "ok_new",
                                "ok_reused", "after_create", "after_branch"}] :
       /\ \A t \in Range(Slice) : o[t] \in DispatchOutcomes(t, Faults)
       /\ LET created == {t \in Range(Slice) :
                            o[t] \in {"ok_new", "ok_reused", "after_create",
                                      "after_branch"}}
              stored == {t \in Range(Slice) :
                           o[t] \in {"ok_new", "ok_reused", "after_branch"}}
              success == {t \in Range(Slice) : o[t] \in {"ok_new", "ok_reused"}}
          IN /\ branches' = branches \cup created
             /\ worktrees' = [t \in Tasks |-> IF t \in created THEN 1 ELSE worktrees[t]]
             /\ branch_name' = [t \in Tasks |->
                                  IF t \in stored THEN BranchOf(t) ELSE branch_name[t]]
             /\ worktree_path' = [t \in Tasks |->
                                    IF t \in stored THEN PathOf(t) ELSE worktree_path[t]]
             /\ status' = [t \in Tasks |->
                             IF t \in success THEN DISPATCHED ELSE status[t]]
             /\ dispatched_count' = dispatched_count + Cardinality(success)
  /\ edges' = Changed(status, status')
  /\ lastOp' = [op |-> "watch", task |-> Ghost, res |-> "done"]
  /\ UNCHANGED <<deps, retry_count, last_feedback, validations, agents, ahead,
                 mainLine, conflicted, p4queue, requeues, fanVars, access,
                 access_violations, merged, repVars, research>>

\* no call of watch_and_dispatch is under way
NoWatch == [pc |-> "idle", iteration |-> 0, moved |-> {}, why |-> "none"]

\* variant: the loop goes on after max_tasks is reached
watch_after_no_cap(count, iteration) ==
  IF iteration + 1 >= max_iterations THEN "iterations" ELSE "loop"

\* the end of one iteration of the loop: break when max_tasks is reached,
\* leave the loop after iteration max_iterations - 1, go on otherwise
watch_after(count, iteration) ==
  IF count >= max_tasks THEN "cap"
  ELSE IF iteration + 1 >= max_iterations THEN "iterations"
  ELSE "loop"

\* watch_and_dispatch is called: dispatched_count = 0, and range() is
\* empty when max_iterations is 0
WatchStart ==
  /\ Idle
  /\ watch.pc = "idle"
  /\ dispatched_count' = 0
  /\ watch' = IF max_iterations > 0
                THEN [pc |-> "loop", iteration |-> 0, moved |-> {}, why |-> "none"]
                ELSE [pc |-> "returned", iteration |-> 0, moved |-> {},
                      why |-> "iterations"]
  /\ UNCHANGED <<research, dbVars, deps, gitVars, p4queue, fanVars, access,
                 access_violations, merged, repVars, edges, requeues, lastOp>>

\* one iteration of the loop of the running call, every dispatch run to its
\* end
WatchLoop ==
  /\ watch.pc = "loop"
  /\ IF get_tasks_by_status(status, CAHIER_READY) = <<>>
       THEN /\ watch' = [watch EXCEPT !.pc = "returned", !.why = "no_ready"]
            /\ UNCHANGED <<research, dbVars, deps, gitVars, p4queue, fanVars, access,
                           access_violations, merged, repVars, edges, requeues,
                           lastOp, dispatched_count>>
       ELSE /\ watch_iteration({})
            /\ LET after == watch_after(dispatched_count', watch.iteration)
                   moved == {t \in Tasks : /\ status[t] = CAHIER_READY
                                            /\ status'[t] = DISPATCHED}
               IN watch' = [pc |-> IF after = "loop" THEN "loop" ELSE "returned",
                            iteration |-> watch.iteration + 1,
                            moved |-> watch.moved \cup moved,
                            why |-> IF after = "loop" THEN "none" ELSE after]

\* return dispatched_count: the caller has the count
WatchReturn ==
  /\ watch.pc = "returned"
  /\ watch' = NoWatch
  /\ UNCHANGED <<research, dbVars, deps, gitVars, p4queue, fanVars, access,
                 access_violations, merged, repVars, edges, requeues, lastOp,
                 dispatched_count>>

\* an iteration in which a dispatch may be cut short
WatchIteration ==
  watch_iteration({"after_create", "after_branch"}) /\ UNCHANGED watch

\* an iteration in which every dispatch runs to its end
Poll == watch_iteration({}) /\ UNCHANGED watch

\* the call of watch_and_dispatch ends (no ready task, max_tasks reached,
\* max_iterations done, or the process stops) and run_phase1 is started
\* again: the new call counts from 0
WatchCall ==
  /\ Idle
  /\ dispatched_count > 0
  /\ dispatched_count' = 0
  /\ UNCHANGED <<watch, research, dbVars, deps, gitVars, p4queue, fanVars, access, access_violations,
                 merged, repVars, edges, requeues, lastOp>>

\* -------------------------------------- access_control.py, the enumerations
\* AccessDecision
ALLOWED == "allowed"
DENIED_EXCLUDED == "denied_excluded"
DENIED_NOT_IN_ALLOW == "denied_not_in_allow"
DENIED_PATH_TRAVERSAL == "denied_path_traversal"
\* AccessMode
BLOCK == "block"
LOG == "log"
ASK == "ask"
AccessMode == {BLOCK, LOG, ASK}

\* the operation an access is for; validate_file_access names it in its
\* message only
Operations == {"read", "write"}

\* ------------------------------------------- db.py, access_violations table
\* Database.log_access_violation: one INSERT; the row takes the next
\* violation_id, which is its position in the table
log_access_violation(av, task_id, file_path, operation, decision, reason, agent_id, human_approved) ==
  Append(av, [task_id |-> task_id, agent_id |-> agent_id, file_path |-> file_path,
              operation |-> operation, decision |-> decision, reason |-> reason,
              human_approved |-> human_approved])

\* variant: the approval also rewrites the recorded decision
approve_access_violation_allowing(av, violation_id) ==
  [i \in 1..Len(av) |->
     IF i = violation_id
       THEN [av[i] EXCEPT !.human_approved = TRUE, !.decision = ALLOWED]
       ELSE av[i]]

\* Database.approve_access_violation:
\* UPDATE access_violations SET human_approved = 1 WHERE violation_id = ?
approve_access_violation(av, violation_id) ==
  [i \in 1..Len(av) |->
     IF i = violation_id THEN [av[i] EXCEPT !.human_approved = TRUE] ELSE av[i]]

\* Database.get_access_violations_for_task(task_id, denied_only=True):
\* WHERE task_id = ? AND decision != 'allowed'
get_access_violations_for_task(av, task_id) ==
  SelectSeq(av, LAMBDA v : v.task_id = task_id /\ v.decision # ALLOWED)

\* a caller of the store records an access decision
LogAccessViolation ==
  /\ Len(access_violations) < MaxAudit
  /\ \E t \in Tasks : \E file_path \in {<<"a">>, <<".", "e">>} : \E operation \in Operations :
     \E decision \in {ALLOWED, DENIED_EXCLUDED} : \E human_approved \in BOOLEAN :
       access_violations' =
         log_access_violation(access_violations, t, file_path, operation,
                              decision, NULL, NULL, human_approved)
  /\ UNCHANGED <<watch, research, dbVars, deps, gitVars, p4queue, fanVars, access, merged, repVars,
                 edges, requeues, lastOp, dispatched_count>>

\* a human approves a recorded violation; an id that names no row updates none
ApproveAccessViolation ==
  /\ \E violation_id \in 1..MaxAudit :
       access_violations' = approve_access_violation(access_violations, violation_id)
  /\ UNCHANGED <<watch, research, dbVars, deps, gitVars, p4queue, fanVars, access, merged, repVars,
                 edges, requeues, lastOp, dispatched_count>>

\* ------------------------------------------------------------- phase3_qa.py
QaOutcomes == {GO, NO_GO, "error"}

\* the validation records VerifierAgent.verify and TesterAgent.test create for
\* one task; an agent that raises creates none
QaRecords(t, vo, to, logicFirst) ==
  LET l == IF vo = "error" THEN <<>>
           ELSE <<[validator_type |-> "logic", status |-> vo]>>
      k == IF to = "error" THEN <<>>
           ELSE <<[validator_type |-> "tech", status |-> to]>>
  IN IF logicFirst THEN l \o k ELSE k \o l

\* VerifierAgent._check_access_violations: passed unless access control is
\* enabled and the task has a row whose decision is not 'allowed'
check_access_violations(av, t) ==
  IF ~access_control_enabled THEN TRUE
  ELSE get_access_violations_for_task(av, t) = <<>>

QaVerdict(vo, to) ==
  IF vo = GO /\ to = GO THEN VALIDATION_PASSED ELSE VALIDATION_FAILED

\* run_phase3: the coded tasks in creation order; the loop stops early when
\* loading a task's spec file raises (n tasks were handled before; lastOp
\* names the task whose spec file did not load)
RunPhase3 ==
  /\ Idle
  /\ UNCHANGED <<fanVars, aclVars, repVars>>
  /\ LET coded == get_tasks_by_status(status, CODE_DONE)
     IN \E n \in 0..Len(coded) :
          LET done == SubSeq(coded, 1, n)
          IN \E o \in [Range(done) -> QaOutcomes \X QaOutcomes \X BOOLEAN] :
               /\ \A t \in Range(done) :
                    (o[t][1] = "error" \/ o[t][2] = "error") => o[t][3]
               /\ \A t \in Range(done) :
                    o[t][1] = GO => check_access_violations(access_violations, t)
               /\ validations' = [t \in Tasks |->
                                    IF t \in Range(done)
                                      THEN validations[t] \o
                                           QaRecords(t, o[t][1], o[t][2], o[t][3])
                                      ELSE validations[t]]
               /\ \A t \in Tasks : Len(validations'[t]) <= MaxValidations
               /\ status' = [t \in Tasks |->
                               IF t \in Range(done)
                                 THEN QaVerdict(o[t][1], o[t][2])
                                 ELSE status[t]]
               /\ edges' = Changed(status, status')
               /\ lastOp' = [op |-> "qa",
                             task |-> IF n < Len(coded) THEN coded[n + 1] ELSE Ghost,
                             res |-> IF coded = <<>> THEN "no_tasks"
                                     ELSE IF n < Len(coded) THEN "aborted"
                                     ELSE "done"]
  /\ UNCHANGED <<deps, branch_name, worktree_path, retry_count, last_feedback,
                 agents, gitVars, p4queue, requeues>>

\* ----------------------------------------------------------- retry_handler.py
get_validations_for_task(v, t) ==
  [i \in 1..Len(v[t]) |-> [id |-> i, rec |-> v[t][i]]]

\* RetryHandler._build_feedback: one issue per no_go record, in creation order
build_feedback(t, vals) ==
  LET bad == SelectSeq(vals, LAMBDA r : r.rec.status = NO_GO)
  IN [i \in 1..Len(bad) |->
        [validator_type |-> bad[i].rec.validator_type, validation_id |-> bad[i].id]]

\* variant: no retry limit
RetryDecision_unlimited(t) ==
  IF get_validations_for_task(validations, t) = <<>> THEN "skip" ELSE "retry"

\* variant: the retry limit is compared with > instead of >=
RetryDecision_gt(t) ==
  IF retry_count[t] > max_retries THEN "failed"
  ELSE IF get_validations_for_task(validations, t) = <<>> THEN "skip"
  ELSE "retry"

\* what process_failed_tasks does with one validation_failed task
RetryDecision(t) ==
  IF retry_count[t] >= max_retries THEN "failed"
  ELSE IF get_validations_for_task(validations, t) = <<>> THEN "skip"
  ELSE "retry"

process_failed_tasks ==
  LET failed == Range(get_tasks_by_status(status, VALIDATION_FAILED))
      retried == {t \in failed : RetryDecision(t) = "retry"}
  IN /\ retry_count' = [t \in Tasks |->
                          IF t \in retried THEN retry_count[t] + 1 ELSE retry_count[t]]
     /\ last_feedback' = [t \in Tasks |->
                            IF t \in retried
                              THEN build_feedback(t, get_validations_for_task(validations, t))
                              ELSE last_feedback[t]]
     /\ status' = [t \in Tasks |->
                     IF t \in failed
                       THEN CASE RetryDecision(t) = "failed" -> FAILED
                              [] RetryDecision(t) = "retry" -> CODE_DONE
                              [] OTHER -> status[t]
                       ELSE status[t]]
     /\ edges' = Changed(status, status')
     /\ requeues' = [t \in Tasks |->
                       IF t \in retried THEN requeues[t] + 1 ELSE requeues[t]]
     /\ lastOp' = [op |-> "retry", task |-> Ghost,
                   res |-> IF failed = {} THEN "no_tasks" ELSE "done"]

RunRetryHandler ==
  /\ Idle
  /\ UNCHANGED <<fanVars, aclVars, repVars>>
  /\ enable_retry
  /\ process_failed_tasks
  /\ UNCHANGED <<deps, branch_name, worktree_path, validations, agents, gitVars,
                 p4queue>>

\* process_failed_tasks cut short: the process stops while the k-th failed
\* task is handled, after increment_retry has committed and before
\* update_task_status(CODE_DONE) is reached; the tasks before it were handled
\* completely
RetryStop ==
  /\ Idle
  /\ enable_retry
  /\ LET failed_tasks == get_tasks_by_status(status, VALIDATION_FAILED)
     IN \E k \in 1..Len(failed_tasks) :
          LET done == {failed_tasks[i] : i \in 1..(k - 1)}
              retried == {t \in done : RetryDecision(t) = "retry"}
              cut == failed_tasks[k]
          IN /\ RetryDecision(cut) = "retry"
             /\ retry_count' = [t \in Tasks |->
                                  IF t \in retried \cup {cut}
                                    THEN retry_count[t] + 1 ELSE retry_count[t]]
             /\ last_feedback' =
                  [t \in Tasks |->
                     IF t \in retried \cup {cut}
                       THEN build_feedback(t, get_validations_for_task(validations, t))
                       ELSE last_feedback[t]]
             /\ status' = [t \in Tasks |->
                             IF t \in done
                               THEN CASE RetryDecision(t) = "failed" -> FAILED
                                      [] RetryDecision(t) = "retry" -> CODE_DONE
                                      [] OTHER -> status[t]
                               ELSE status[t]]
             /\ edges' = Changed(status, status')
             /\ requeues' = [t \in Tasks |->
                               IF t \in retried THEN requeues[t] + 1 ELSE requeues[t]]
             /\ lastOp' = [op |-> "retry", task |-> cut, res |-> "stopped"]
  /\ UNCHANGED <<fanVars, aclVars, repVars, deps, branch_name, worktree_path,
                 validations, agents, gitVars, p4queue>>

\* ------------------------------------------------- db.py: the merge gate
\* the rows check_task_ready_for_merge selects: ORDER BY created_at DESC
GateRows(v, t) ==
  LET asc == SelectSeq(get_validations_for_task(v, t),
                       LAMBDA r : r.rec.validator_type \in ValidatorTypes)
  IN [i \in 1..Len(asc) |-> asc[Len(asc) + 1 - i].rec]

\* {row['validator_type']: row['status'] for row in rows}: a later row
\* overwrites the entry of an earlier one
RECURSIVE RowsToDict(_, _, _)
RowsToDict(rows, i, d) ==
  IF i > Len(rows) THEN d
  ELSE RowsToDict(rows, i + 1, [d EXCEPT ![rows[i].validator_type] = rows[i].status])

check_task_ready_for_merge(v, t) ==
  LET rows == GateRows(v, t)
      d == RowsToDict(rows, 1, [k \in ValidatorTypes |-> NULL])
  IN IF Len(rows) < 2 THEN FALSE
     ELSE d["logic"] = GO /\ d["tech"] = GO

mark_task_completed(st, t) == [st EXCEPT ![t] = MERGED]

\* ------------------------------------------------- git_helper.py: merging
Files == {"a.py", "b.py"}

\* variant: the abort leaves the merge in progress
merge_abort_skipped(g) == g

\* git merge --abort: ends the merge in progress, the base branch is untouched
merge_abort(g) == [g EXCEPT !.conflicted = {}]

\* GitHelper.get_merge_conflicts: the files git status reports as UU or AA
get_merge_conflicts(g) == g.conflicted

\* GitHelper.resolve_conflicts_auto: checkout --ours/--theirs and add each file
resolve_conflicts_auto(g, strategy) ==
  IF strategy \in {"ours", "theirs"}
    THEN [g EXCEPT !.conflicted = {}, !.resolved = g.conflicted]
    ELSE g

\* GitHelper.complete_merge: commits the merge unless conflicts remain
complete_merge(g, t) ==
  IF get_merge_conflicts(g) # {} THEN g
  ELSE [g EXCEPT !.mainLine = Append(g.mainLine,
                   [task |-> t, kind |-> IF g.resolved # {} THEN "resolved" ELSE "merge"]),
                 !.ahead = g.ahead \ {t}, !.resolved = {}]

\* variant: a conflicting merge is resolved with "ours" and committed
merge_branch_resolving(g, b, outcome, F) ==
  IF outcome = "error" \/ b = NULL \/ b[2] \notin g.branches
    THEN [git |-> merge_abort(g), success |-> FALSE, conflict |-> FALSE, files |-> {}]
  ELSE IF b[2] \notin g.ahead
    THEN [git |-> g, success |-> TRUE, conflict |-> FALSE, files |-> {}]
  ELSE IF outcome = "ok"
    THEN [git |-> complete_merge(g, b[2]), success |-> TRUE, conflict |-> FALSE,
          files |-> {}]
  ELSE LET g1 == [g EXCEPT !.conflicted = F]
           g2 == resolve_conflicts_auto(g1, "ours")
       IN [git |-> complete_merge(g2, b[2]), success |-> TRUE, conflict |-> FALSE,
           files |-> {}]

\* the entry merge_branch lists when git status shows no conflicted file
CHECK_GIT_LOG == "Check git log for conflict details"

\* GitHelper.merge_branch(branch_name, target_branch); b is the branch name
\* given, outcome what git merge does ("ok", "conflict", "error"), F the files
\* a conflict is on.  g = [branches, ahead, mainLine, conflicted, resolved];
\* files are the entries under "Conflicting files:" of the message returned
merge_branch(g, b, outcome, F) ==
  IF outcome = "error" \/ b = NULL \/ b[2] \notin g.branches
    THEN [git |-> merge_abort(g), success |-> FALSE, conflict |-> FALSE, files |-> {}]
  ELSE IF b[2] \notin g.ahead
    THEN [git |-> g, success |-> TRUE, conflict |-> FALSE, files |-> {}]
  ELSE IF outcome = "ok"
    THEN [git |-> complete_merge(g, b[2]), success |-> TRUE, conflict |-> FALSE,
          files |-> {}]
  ELSE LET g1 == [g EXCEPT !.conflicted = F]
           g2 == merge_abort(g1)
           conflicts == get_merge_conflicts(g2)
       IN [git |-> g2, success |-> FALSE, conflict |-> TRUE,
           files |-> IF conflicts = {} THEN {CHECK_GIT_LOG} ELSE conflicts]

\* GitHelper.cleanup_merged_branch: remove_worktree(force) then "branch -d";
\* cl is what fails: nothing ("ok"), the worktree removal, the branch deletion
cleanup_merged_branch(br, wt, t, b, cl) ==
  IF cl = "wt_fail" /\ wt[t] > 0 THEN [branches |-> br, worktrees |-> wt]
  ELSE IF cl = "branch_fail" \/ b = NULL
    THEN [branches |-> br, worktrees |-> [wt EXCEPT ![t] = 0]]
  ELSE [branches |-> br \ {b[2]}, worktrees |-> [wt EXCEPT ![t] = 0]]

\* --------------------------------------------------------- phase4_merger.py
GitState ==
  [branches |-> branches, ahead |-> ahead, mainLine |-> mainLine,
   conflicted |-> conflicted, resolved |-> {}]

MergeResult(t, outcome, F) ==
  IF t \notin Tasks THEN "not_found"
  ELSE IF ~check_task_ready_for_merge(validations, t) THEN "not_ready"
  ELSE LET m == merge_branch(GitState, branch_name[t], outcome, F)
       IN IF m.success THEN "merged"
          ELSE IF m.conflict THEN "conflict" ELSE "git_error"

NoConflict == [task |-> Ghost, on |-> {}, returned |-> {}, reported |-> {}]

\* MergerAgent._create_conflict_report: error_message is what merge_branch
\* returned, conflicting_files what get_merge_conflicts finds now
create_conflict_report(t, F, m) ==
  [task |-> t, on |-> F, returned |-> m.files,
   reported |-> get_merge_conflicts(m.git)]

merge_task(t, outcome, F, cl) ==
  LET res == MergeResult(t, outcome, F)
      m == merge_branch(GitState, branch_name[t], outcome, F)
      c == cleanup_merged_branch(m.git.branches, worktrees, t, branch_name[t], cl)
  IN /\ lastOp' = [op |-> "merge", task |-> t, res |-> res]
     /\ IF res \in {"not_found", "not_ready"}
          THEN UNCHANGED <<status, branches, worktrees, ahead, mainLine, conflicted>>
          ELSE /\ ahead' = m.git.ahead
               /\ mainLine' = m.git.mainLine
               /\ conflicted' = m.git.conflicted
               /\ IF res = "merged"
                    THEN /\ branches' = IF cleanup_after_merge THEN c.branches ELSE branches
                         /\ worktrees' = IF cleanup_after_merge THEN c.worktrees ELSE worktrees
                         /\ status' = mark_task_completed(status, t)
                    ELSE /\ UNCHANGED <<branches, worktrees>>
                         /\ status' = IF res = "conflict"
                                        THEN update_task_status(status, t, MERGE_CONFLICT)
                                        ELSE status
     /\ merge_conflict' = IF res = "conflict"
                            THEN create_conflict_report(t, F, m)
                            ELSE merge_conflict
     /\ edges' = Changed(status, status')
     /\ UNCHANGED <<deps, branch_name, worktree_path, retry_count, last_feedback,
                    validations, agents, requeues>>

CleanupOutcomes == {"ok", "wt_fail", "branch_fail"}
ConflictSets == SUBSET Files \ {{}}

\* the (git merge outcome, conflict files, cleanup outcome) triples that make
\* a difference to merge_task(t)
MergeInputs(t) ==
  IF MergeResult(t, "ok", {}) \in {"not_found", "not_ready"}
    THEN {<<"error", {}, "ok">>}
    ELSE {<<"ok", {}, cl>> : cl \in CleanupOutcomes}
         \cup {<<"conflict", F, "ok">> : F \in ConflictSets}
         \cup {<<"error", {}, "ok">>}

\* an explicit merge request for one task
MergeTask ==
  /\ Idle
  /\ UNCHANGED <<fanVars, aclVars>>
  /\ \E t \in AllIds : \E i \in MergeInputs(t) : merge_task(t, i[1], i[2], i[3])
  /\ UNCHANGED p4queue

\* variant: the merge phase also picks the tasks parked on a conflict
select_validated_or_conflict(st) ==
  SelectSeq([i \in 1..NumTasks |-> i],
            LAMBDA t : st[t] \in {VALIDATION_PASSED, MERGE_CONFLICT})

\* run_phase4: the tasks the merge phase selects
select_validated(st) == get_tasks_by_status(st, VALIDATION_PASSED)

\* variant: the merge list is built whatever the answer to the prompt
batch_task_ids_unasked(validated_tasks, res) ==
  SubSeq(validated_tasks, 1,
         IF Len(validated_tasks) < max_batch_size THEN Len(validated_tasks)
         ELSE max_batch_size)

\* run_phase4: the task ids handed to the merger, none when there is no
\* validated task or the prompt was answered no (return 0)
batch_task_ids(validated_tasks, res) ==
  IF res = "approved"
    THEN IF batch_merge_enabled
           THEN SubSeq(validated_tasks, 1,
                       IF Len(validated_tasks) < max_batch_size
                         THEN Len(validated_tasks)
                         ELSE max_batch_size)
           ELSE validated_tasks
    ELSE <<>>

\* run_phase4 up to the call of batch_merge
RunPhase4 ==
  /\ Idle
  /\ UNCHANGED <<fanVars, aclVars, repVars>>
  /\ LET validated_tasks == select_validated(status)
     IN \E approved \in BOOLEAN :
          LET res == IF validated_tasks = <<>> THEN "no_tasks"
                     ELSE IF require_human_validation /\ ~approved THEN "cancelled"
                     ELSE "approved"
          IN /\ p4queue' = batch_task_ids(validated_tasks, res)
             /\ lastOp' = [op |-> "phase4", task |-> Ghost, res |-> res]
  /\ edges' = {}
  /\ UNCHANGED <<dbVars, deps, gitVars, requeues>>

\* MergerAgent.batch_merge: one merge_task per step, in sequence
BatchMergeStep ==
  /\ p4queue # <<>>
  /\ UNCHANGED <<fanVars, aclVars>>
  /\ \E i \in MergeInputs(Head(p4queue)) : merge_task(Head(p4queue), i[1], i[2], i[3])
  /\ p4queue' = Tail(p4queue)

\* variant: the merges of the list are started together
can_start_merge_gathered(r) == TRUE

\* MergerAgent.batch_merge and the one-by-one loop of run_phase4 await each
\* merge_task before the next turn of the loop
can_start_merge(r) == \A o \in r : o[1] # "merge"

\* the loop calls merge_task for the next task of the list
MergeBegin ==
  /\ p4queue # <<>>
  /\ can_start_merge(running)
  /\ running' = running \cup {<<"merge", Head(p4queue)>>}
  /\ p4queue' = Tail(p4queue)
  /\ lastOp' = [op |-> "merge_begin", task |-> Head(p4queue), res |-> "started"]
  /\ edges' = {}
  /\ UNCHANGED <<dbVars, deps, gitVars, p2wait, aclVars, repVars, requeues>>

\* a merge_task call of the loop returns: the merge, its abort on conflict
\* and its cleanup are done
MergeEnd ==
  /\ \E t \in Tasks :
       /\ <<"merge", t>> \in running
       /\ \E i \in MergeInputs(t) : merge_task(t, i[1], i[2], i[3])
       /\ running' = running \ {<<"merge", t>>}
  /\ UNCHANGED <<p4queue, p2wait, aclVars>>

\* merge_task on its success path, statement by statement.  First the merge
\* and _cleanup_after_merge: the branch is merged, and with
\* cleanup_after_merge its worktree is removed and its branch deleted; the
\* store is not written yet.
MergeCleanup ==
  /\ Idle
  /\ \E t \in Tasks : \E cl \in CleanupOutcomes :
       LET m == merge_branch(GitState, branch_name[t], "ok", {})
           c == cleanup_merged_branch(m.git.branches, worktrees, t, branch_name[t], cl)
       IN /\ MergeResult(t, "ok", {}) = "merged"
          /\ ahead' = m.git.ahead
          /\ mainLine' = m.git.mainLine
          /\ conflicted' = m.git.conflicted
          /\ branches' = IF cleanup_after_merge THEN c.branches ELSE branches
          /\ worktrees' = IF cleanup_after_merge THEN c.worktrees ELSE worktrees
          /\ running' = {<<"mark", t>>}
          /\ lastOp' = [op |-> "merge", task |-> t, res |-> "cleaned"]
  /\ edges' = {}
  /\ UNCHANGED <<dbVars, deps, p4queue, p2wait, aclVars, repVars, requeues>>

\* then db.mark_task_completed, the last statement of the success path
MergeMark ==
  /\ \E t \in Tasks :
       /\ <<"mark", t>> \in running
       /\ status' = mark_task_completed(status, t)
       /\ running' = running \ {<<"mark", t>>}
       /\ lastOp' = [op |-> "merge", task |-> t, res |-> "merged"]
  /\ edges' = Changed(status, status')
  /\ UNCHANGED <<deps, branch_name, worktree_path, retry_count, last_feedback,
                 validations, agents, gitVars, p4queue, p2wait, aclVars, repVars,
                 requeues>>

\* --------------------------------------------------------- access_control.py
\* A string is the sequence of its characters.

\* str.split(sep)
RECURSIVE split(_, _)
split(s, sep) ==
  IF \A i \in 1..Len(s) : s[i] # sep THEN <<s>>
  ELSE LET i == CHOOSE k \in 1..Len(s) :
                  s[k] = sep /\ \A j \in 1..(k - 1) : s[j] # sep
       IN <<SubSeq(s, 1, i - 1)>> \o split(SubSeq(s, i + 1, Len(s)), sep)

\* "/".join(parts)
RECURSIVE join(_)
join(parts) ==
  IF parts = <<>> THEN <<>>
  ELSE IF Len(parts) = 1 THEN parts[1]
  ELSE parts[1] \o <<"/">> \o join(Tail(parts))

\* str.rstrip('/')
RECURSIVE rstrip(_)
rstrip(s) ==
  IF s # <<>> /\ s[Len(s)] = "/" THEN rstrip(SubSeq(s, 1, Len(s) - 1)) ELSE s

\* str.replace('\\', '/')
replace_backslash(s) == [i \in 1..Len(s) |-> IF s[i] = "\\" THEN "/" ELSE s[i]]

\* str.startswith(prefix); also used for the parts of a path
startswith(s, prefix) ==
  Len(prefix) <= Len(s) /\ SubSeq(s, 1, Len(prefix)) = prefix

\* pathlib.Path(s) on a POSIX system: whether it is absolute, and its
\* parts without the root (empty and "." segments are dropped)
Path(s) ==
  [absolute |-> s # <<>> /\ s[1] = "/",
   parts |-> SelectSeq(split(s, "/"), LAMBDA x : x # <<>> /\ x # <<".">>)]

\* str(path) of a relative path
str(parts) == IF parts = <<>> THEN <<".">> ELSE join(parts)

\* Path.resolve(): the symbolic links of the file system are followed, the
\* shortest linked prefix first; a loop of links raises RuntimeError
RECURSIVE resolve(_, _, _)
resolve(links, parts, fuel) ==
  LET hits == {i \in 1..Len(parts) : \E l \in links : l[1] = SubSeq(parts, 1, i)}
  IN IF hits = {} THEN [raised |-> FALSE, parts |-> parts]
     ELSE IF fuel = 0 THEN [raised |-> TRUE, parts |-> parts]
     ELSE LET i == CHOOSE k \in hits : \A j \in hits : k <= j
              l == CHOOSE x \in links : x[1] = SubSeq(parts, 1, i)
          IN resolve(links, l[2] \o SubSeq(parts, i + 1, Len(parts)), fuel - 1)

\* _normalize_path without its test for '..'
normalize_path_unchecked(root, links, file_path) ==
  LET path == Path(file_path)
  IN resolve(links,
             IF path.absolute THEN path.parts ELSE Path(root).parts \o path.parts,
             Cardinality(links))

\* AccessControlManager._normalize_path; raised stands for ValueError
normalize_path(root, links, file_path) ==
  LET path == Path(file_path)
  IN IF \E i \in 1..Len(path.parts) : path.parts[i] = <<".", ".">>
     THEN [raised |-> TRUE, parts |-> path.parts]
     ELSE resolve(links,
                  IF path.absolute THEN path.parts
                  ELSE Path(root).parts \o path.parts,
                  Cardinality(links))

\* relative_to that takes any path as it is
relative_to_any(parts, other) == [raised |-> FALSE, parts |-> parts]

\* PurePath.relative_to(other); raised stands for ValueError
relative_to(parts, other) ==
  IF startswith(parts, other)
  THEN [raised |-> FALSE, parts |-> SubSeq(parts, Len(other) + 1, Len(parts))]
  ELSE [raised |-> TRUE, parts |-> parts]

\* fnmatch.fnmatch(name, pat) on a POSIX system, for patterns without
\* brackets: * is any run of characters, ? any one character
RECURSIVE fnmatch(_, _)
fnmatch(name, pat) ==
  IF pat = <<>> THEN name = <<>>
  ELSE IF Head(pat) = "*"
       THEN fnmatch(name, Tail(pat)) \/ (name # <<>> /\ fnmatch(Tail(name), pat))
  ELSE IF name = <<>> THEN FALSE
  ELSE (Head(pat) = "?" \/ Head(pat) = Head(name)) /\ fnmatch(Tail(name), Tail(pat))

\* pattern.replace('**', '.*').replace('*', '[^/]*').replace('?', '.') as
\* a sequence of regular-expression atoms: the * of the '.*' written by
\* the first replacement is rewritten by the second one, and a '.' of the
\* pattern is left as the atom that matches any character
ANY == "."
NOSLASHES == "[^/]*"
RECURSIVE regex_pattern(_)
regex_pattern(pat) ==
  IF pat = <<>> THEN <<>>
  ELSE IF Len(pat) >= 2 /\ pat[1] = "*" /\ pat[2] = "*"
       THEN <<ANY, NOSLASHES>> \o regex_pattern(SubSeq(pat, 3, Len(pat)))
  ELSE IF pat[1] = "*" THEN <<NOSLASHES>> \o regex_pattern(Tail(pat))
  ELSE IF pat[1] \in {"?", "."} THEN <<ANY>> \o regex_pattern(Tail(pat))
  ELSE <<pat[1]>> \o regex_pattern(Tail(pat))

\* re.match('^' + regex + '$', s)
RECURSIVE re_match(_, _)
re_match(regex, s) ==
  IF regex = <<>> THEN s = <<>>
  ELSE IF Head(regex) = NOSLASHES
       THEN re_match(Tail(regex), s)
            \/ (s # <<>> /\ Head(s) # "/" /\ re_match(regex, Tail(s)))
  ELSE IF s = <<>> THEN FALSE
  ELSE (Head(regex) = ANY \/ Head(regex) = Head(s)) /\ re_match(Tail(regex), Tail(s))

\* AccessControlManager._matches_pattern
matches_pattern(path0, pattern0) ==
  LET pattern == rstrip(replace_backslash(pattern0))
      path == rstrip(path0)
      last == split(pattern, "/")[Len(split(pattern, "/"))]
  IN \/ /\ \A i \in 1..Len(last) : last[i] # "."
        /\ (startswith(path, pattern \o <<"/">>) \/ path = pattern)
     \/ fnmatch(path, pattern)
     \/ fnmatch(path, pattern \o <<"/", "*">>)
     \/ /\ \E i \in 1..(Len(pattern) - 1) : pattern[i] = "*" /\ pattern[i + 1] = "*"
        /\ re_match(regex_pattern(pattern), path)

\* AccessControlManager._is_excluded, ._is_allowed
is_excluded(relative_path, exclude_patterns) ==
  \E pattern \in exclude_patterns :
     matches_pattern(replace_backslash(str(relative_path)), pattern)
is_allowed(relative_path, allow_patterns) ==
  \E pattern \in allow_patterns :
     matches_pattern(replace_backslash(str(relative_path)), pattern)

\* variant: ask mode lets the access through
handle_decision_ask_allows(decision, mode) ==
  [decision |-> IF mode = ASK THEN ALLOWED ELSE decision,
   raised |-> decision # ALLOWED /\ mode = BLOCK]

\* AccessControlManager._handle_decision: in block mode a denial is raised
\* as AccessViolation, which carries the decision
handle_decision(decision, mode) ==
  [decision |-> decision, raised |-> decision # ALLOWED /\ mode = BLOCK]

\* validate_file_access asking the allow list before the exclude list
validate_file_access_allow_first(root, links, allow, exclude, mode, file_path) ==
  LET n == normalize_path(root, links, file_path)
      r == relative_to(n.parts, Path(root).parts)
  IN IF n.raised THEN handle_decision(DENIED_PATH_TRAVERSAL, mode)
     ELSE IF r.raised THEN handle_decision(DENIED_PATH_TRAVERSAL, mode)
     ELSE IF allow = {} \/ is_allowed(r.parts, allow)
          THEN [decision |-> ALLOWED, raised |-> FALSE]
     ELSE IF is_excluded(r.parts, exclude)
          THEN handle_decision(DENIED_EXCLUDED, mode)
     ELSE handle_decision(DENIED_NOT_IN_ALLOW, mode)

\* validate_file_access that asks the allow list even when it is empty
validate_file_access_no_default(root, links, allow, exclude, mode, file_path) ==
  LET n == normalize_path(root, links, file_path)
      r == relative_to(n.parts, Path(root).parts)
  IN IF n.raised THEN handle_decision(DENIED_PATH_TRAVERSAL, mode)
     ELSE IF r.raised THEN handle_decision(DENIED_PATH_TRAVERSAL, mode)
     ELSE IF is_excluded(r.parts, exclude)
          THEN handle_decision(DENIED_EXCLUDED, mode)
     ELSE IF is_allowed(r.parts, allow)
          THEN [decision |-> ALLOWED, raised |-> FALSE]
     ELSE handle_decision(DENIED_NOT_IN_ALLOW, mode)

\* AccessControlManager.validate_file_access
validate_file_access(root, links, allow, exclude, mode, file_path) ==
  LET n == normalize_path(root, links, file_path)
      r == relative_to(n.parts, Path(root).parts)
  IN IF n.raised THEN handle_decision(DENIED_PATH_TRAVERSAL, mode)
     ELSE IF r.raised THEN handle_decision(DENIED_PATH_TRAVERSAL, mode)
     ELSE IF is_excluded(r.parts, exclude)
          THEN handle_decision(DENIED_EXCLUDED, mode)
     ELSE IF allow = {} \/ is_allowed(r.parts, allow)
          THEN [decision |-> ALLOWED, raised |-> FALSE]
     ELSE handle_decision(DENIED_NOT_IN_ALLOW, mode)

\* str(worktrees_dir / task_id) of create_worktree: the repository is /r,
\* its worktrees directory is written w
WorktreeRoot(t) == <<"/", "r", "/", "w", "/", ToString(t)>>

\* the file systems an access is validated on: no symbolic link, or the
\* entry l of the worktree linked to the worktree of another task, or
\* linked to the directory /e
Links(t) ==
  {{}} \cup
  {{<<Path(WorktreeRoot(t)).parts \o <<<<"l">>>>, target>>} :
     target \in {<<<<"e">>>>} \cup {Path(WorktreeRoot(u)).parts : u \in Tasks \ {t}}}

\* the access.allow and access.exclude lists of a task specification
AllowLists ==
  { {}, {<<"a", "/", "*", "*">>}, {<<"*", ".", "p">>}, {<<"a">>, <<"l">>} }
ExcludeLists ==
  { {}, {<<"a", "/", "k", ".", "p">>}, {<<"a">>}, {<<"*", "*", "/", "k", ".", "p">>} }

\* the paths an agent of task t asks for
FilePaths(t) ==
  { <<"a", "/", "k", ".", "p">>,
    <<"a", "/", "b", "/", "k", "x", "p">>,
    <<"c", ".", "p">>,
    <<"a", "/">>,
    <<>>,
    <<"a", "/", ".", ".", "/", "c", ".", "p">>,
    <<"l", "/", "c", ".", "p">>,
    <<"/", "e", "/", "c", ".", "p">>,
    WorktreeRoot(t) \o <<"/", "a", "/", "k", ".", "p">>,
    WorktreeRoot(t) \o <<"x", "/", "c", ".", "p">> }
  \cup { <<".", ".", "/", ToString(u), "/", "c", ".", "p">> : u \in Tasks \ {t} }
  \cup { WorktreeRoot(u) \o <<"/", "c", ".", "p">> : u \in Tasks \ {t} }

NoAccess ==
  [task |-> Ghost, links |-> {}, allow |-> {}, exclude |-> {}, mode |-> LOG,
   file_path |-> <<>>, operation |-> "none", decision |-> "none",
   raised |-> FALSE]

\* an agent bound to the worktree of its task validates an access:
\* AccessControlManager(access_config, worktree_path, mode)
\*   .validate_file_access(file_path, operation)
\* The call is synchronous: the next one starts after the caller has the
\* result of this one.
ValidateFileAccess ==
  /\ access = NoAccess
  /\ \E t \in Tasks : \E links \in Links(t) : \E allow \in AllowLists :
     \E exclude \in ExcludeLists : \E mode \in AccessMode :
     \E file_path \in FilePaths(t) : \E operation \in Operations :
       /\ worktree_path[t] # NULL
       /\ LET d == validate_file_access(WorktreeRoot(t), links, allow, exclude,
                                        mode, file_path)
          IN access' = [task |-> t, links |-> links, allow |-> allow,
                        exclude |-> exclude, mode |-> mode,
                        file_path |-> file_path, operation |-> operation,
                        decision |-> d.decision,
                        raised |-> d.raised]
  /\ UNCHANGED <<watch, research, dbVars, deps, gitVars, p4queue, fanVars, repVars, edges, requeues,
                 lastOp, access_violations, merged, dispatched_count>>

\* the caller has taken the decision (or caught AccessViolation)
AccessReturn ==
  /\ access # NoAccess
  /\ access' = NoAccess
  /\ UNCHANGED <<watch, research, dbVars, deps, gitVars, p4queue, fanVars, repVars, edges, requeues,
                 lastOp, access_violations, merged, dispatched_count>>

\* variant: each pattern is kept where it occurs last
RECURSIVE fromkeys_last(_)
fromkeys_last(l) ==
  IF l = <<>> THEN <<>>
  ELSE IF \E i \in 2..Len(l) : l[i] = Head(l) THEN fromkeys_last(Tail(l))
  ELSE <<Head(l)>> \o fromkeys_last(Tail(l))

\* list(dict.fromkeys(l)): each element once, where it occurs first
RECURSIVE fromkeys(_)
fromkeys(l) ==
  IF l = <<>> THEN <<>>
  ELSE <<Head(l)>> \o fromkeys(SelectSeq(Tail(l), LAMBDA x : x # Head(l)))

\* variant: the exclude list of the task spec replaces the one of the template
merge_access_configs_override(spec_access, template_access) ==
  LET part(o, key) ==
        IF o # <<>> /\ DOMAIN o[1] # {} /\ key \in DOMAIN o[1] THEN o[1][key]
        ELSE <<>>
  IN [allow |-> fromkeys(part(spec_access, "allow")
                         \o part(template_access, "allow")),
      exclude |-> IF part(spec_access, "exclude") # <<>>
                    THEN fromkeys(part(spec_access, "exclude"))
                    ELSE fromkeys(part(template_access, "exclude"))]

\* merge_access_configs(spec_access, template_access).  An Optional[Dict]
\* is <<>> for None and <<d>> for the dict d, a function on the keys d has.
merge_access_configs(spec_access, template_access) ==
  LET part(o, key) ==
        IF o # <<>> /\ DOMAIN o[1] # {} /\ key \in DOMAIN o[1] THEN o[1][key]
        ELSE <<>>
  IN [allow |-> fromkeys(part(spec_access, "allow")
                         \o part(template_access, "allow")),
      exclude |-> fromkeys(part(spec_access, "exclude")
                           \o part(template_access, "exclude"))]

\* the access configurations of a task spec and of an agent template
AccessConfigs ==
  LET Lists == UNION { [1..n -> {<<"a">>, <<"*", ".", "p">>}] : n \in 0..MaxList }
  IN {<<>>} \cup { <<d>> : d \in UNION { [K -> Lists] :
                                           K \in SUBSET {"allow", "exclude"} } }

NoMerge == [called |-> FALSE, spec_access |-> <<>>, template_access |-> <<>>,
            result |-> [allow |-> <<>>, exclude |-> <<>>]]

\* AgentFactory.get_merged_access_config merges the access configuration of
\* the task spec with the one of the agent template
MergeAccessConfigs ==
  /\ ~merged.called
  /\ \E spec_access \in AccessConfigs : \E template_access \in AccessConfigs :
       merged' = [called |-> TRUE, spec_access |-> spec_access,
                  template_access |-> template_access,
                  result |-> merge_access_configs(spec_access, template_access)]
  /\ UNCHANGED <<watch, research, dbVars, deps, gitVars, p4queue, fanVars, access, access_violations,
                 repVars, edges, requeues, lastOp, dispatched_count>>

\* the caller has taken the merged configuration
MergeReturn ==
  /\ merged.called
  /\ merged' = NoMerge
  /\ UNCHANGED <<watch, research, dbVars, deps, gitVars, p4queue, fanVars, access, access_violations,
                 repVars, edges, requeues, lastOp, dispatched_count>>

\* -------------------------------------------------------- gemini_researcher.py
\* the retry loop of GeminiResearcher.research: o[a] is what the a-th call
\* of _call_gemini_cli does, "ok", TimeoutError, RuntimeError, or another
\* exception, which the loop does not catch
RECURSIVE call_with_retries(_, _)
call_with_retries(o, attempt) ==
  IF attempt > gemini_max_retries THEN [error |-> "no_response", attempts |-> attempt - 1]
  ELSE IF o[attempt] = "ok" THEN [error |-> NULL, attempts |-> attempt]
  ELSE IF o[attempt] \in {"TimeoutError", "RuntimeError"} /\ attempt < gemini_max_retries
       THEN call_with_retries(o, attempt + 1)
  ELSE [error |-> o[attempt], attempts |-> attempt]

\* GeminiResearcher.research: the cached result, the parsed response, or
\* _empty_response(query, domain, error=...) when anything was raised
research_query(query, o, cache) ==
  IF cache_results /\ query \in cache
    THEN [query |-> query, empty |-> FALSE, error |-> NULL, attempts |-> 0]
  ELSE LET c == call_with_retries(o, 1)
       IN [query |-> query, empty |-> c.error # NULL, error |-> c.error,
           attempts |-> c.attempts]

\* variant: the failed queries are left out of the list
batch_research_dropping(queries, outcomes, cache) ==
  SelectSeq([i \in 1..Len(queries) |-> research_query(queries[i], outcomes[i], cache)],
            LAMBDA r : ~r.empty)

\* GeminiResearcher.batch_research: asyncio.gather returns the results in
\* the order of the awaitables
batch_research(queries, outcomes, cache) ==
  [i \in 1..Len(queries) |-> research_query(queries[i], outcomes[i], cache)]

BatchResearch ==
  /\ ~research.called
  /\ \E n \in 0..MaxQueries : \E queries \in [1..n -> {"q1", "q2"}] :
     \E outcomes \in [1..n -> [1..gemini_max_retries ->
                                 {"ok", "TimeoutError", "RuntimeError", "OSError"}]] :
       LET results == batch_research(queries, outcomes, research.cache)
       IN research' = [called |-> TRUE, queries |-> queries, outcomes |-> outcomes,
                       results |-> results,
                       cache |-> IF cache_results
                                   THEN research.cache
                                        \cup {results[i].query :
                                                i \in {j \in 1..Len(results) :
                                                         ~results[j].empty}}
                                   ELSE research.cache]
  /\ UNCHANGED <<dbVars, deps, gitVars, p4queue, fanVars, access, access_violations,
                 merged, dispatched_count, watch, repVars, edges, requeues, lastOp>>

\* the caller has taken the list of results
ResearchReturn ==
  /\ research.called
  /\ research' = [called |-> FALSE, queries |-> <<>>, outcomes |-> <<>>,
                  results |-> <<>>, cache |-> research.cache]
  /\ UNCHANGED <<dbVars, deps, gitVars, p4queue, fanVars, access, access_violations,
                 merged, dispatched_count, watch, repVars, edges, requeues, lastOp>>

\* ------------------------------------------------------------------ main.py
\* Pipeline.cleanup(phase_failed): the two store calls it makes
\* (delete_tasks_by_status, mark_incomplete_tasks_as_failed) name methods
\* that Database does not define; the AttributeError is caught and logged
PhaseCleanup ==
  /\ Idle
  /\ UNCHANGED <<fanVars, aclVars, repVars>>
  /\ lastOp' = [op |-> "cleanup", task |-> Ghost, res |-> "done"]
  /\ edges' = {}
  /\ UNCHANGED <<dbVars, deps, gitVars, p4queue, requeues>>

\* ------------------------------------------------------------ specification
\* The dependency lists the analysts gave the tasks.  In Stuck(d) only the
\* last task has no dependency and every other task depends on d; in Chain
\* the first task depends on the last one, which has no dependency, and any
\* task in between on an id that names no task.
Stuck(d) == [t \in Tasks |-> IF t = NumTasks THEN {} ELSE d[t]]
Chain ==
  [t \in Tasks |-> IF t = NumTasks THEN {}
                   ELSE IF t = 1 THEN {NumTasks} ELSE {Ghost}]
Cycle == [t \in Tasks |-> {IF t = NumTasks THEN 1 ELSE t + 1}]

\* dependencies that can never be met: an id that names no task, the task
\* itself, a cycle
StuckChoices ==
  { Stuck([t \in Tasks |-> {Ghost}]), Stuck([t \in Tasks |-> {t}]), Cycle }

InitWith(D) ==
  /\ status = [t \in Tasks |-> CAHIER_READY]
  /\ deps \in D
  /\ branch_name = [t \in Tasks |-> NULL]
  /\ worktree_path = [t \in Tasks |-> NULL]
  /\ retry_count = [t \in Tasks |-> 0]
  /\ last_feedback = [t \in Tasks |-> NULL]
  /\ validations = [t \in Tasks |-> <<>>]
  /\ agents = [t \in Tasks |-> "none"]
  /\ branches = {}
  /\ worktrees = [t \in Tasks |-> 0]
  /\ ahead = {}
  /\ mainLine = <<>>
  /\ conflicted = {}
  /\ p4queue = <<>>
  /\ p2wait = {}
  /\ running = {}
  /\ access = NoAccess
  /\ access_violations = <<>>
  /\ merged = NoMerge
  /\ dispatched_count = 0
  /\ research = [called |-> FALSE, queries |-> <<>>, outcomes |-> <<>>,
                 results |-> <<>>, cache |-> {}]
  /\ watch = NoWatch
  /\ merge_conflict = NoConflict
  /\ edges = {}
  /\ requeues = [t \in Tasks |-> 0]
  /\ lastOp = [op |-> "init", task |-> Ghost, res |-> "none"]

Init == InitWith(StuckChoices)

\* dependencies that can be met, and one on an id that names no task
DepsChoices == { Chain, Stuck([t \in Tasks |-> {Ghost}]) }

InitDeps == InitWith(DepsChoices)

Next ==
  \/ DispatchTask
  \/ RunPhase2
  \/ RunPhase3
  \/ RunRetryHandler
  \/ MergeTask
  \/ RunPhase4
  \/ BatchMergeStep
  \/ PhaseCleanup

Spec == Init /\ [][Next]_vars

\* the dispatcher, the phases and the retry handler (no explicit merge
\* request, no cleanup) on tasks with dependencies
NextDeps ==
  \/ DispatchTask
  \/ RunPhase2
  \/ RunPhase3
  \/ RunRetryHandler
  \/ RunPhase4
  \/ BatchMergeStep

SpecDeps == InitDeps /\ [][NextDeps]_vars

\* tasks without dependencies
Free == [t \in Tasks |-> {}]

InitFree == InitWith({Free})

\* the pipeline up to the merge phase on independent tasks, the merge loop
\* taken step by step
NextMerge ==
  \/ DispatchTask
  \/ RunPhase2
  \/ RunPhase3
  \/ RunPhase4
  \/ MergeBegin
  \/ MergeEnd

SpecMerge == InitFree /\ [][NextMerge]_vars

\* the dispatcher creates the worktrees, agents validate accesses in them
NextAccess ==
  \/ DispatchTask
  \/ ValidateFileAccess
  \/ AccessReturn

SpecAccess == InitFree /\ [][NextAccess]_vars

\* the dispatcher and phase 2 on independent tasks, the specialists taken
\* step by step
NextFanout ==
  \/ DispatchTask
  \/ Phase2Begin
  \/ SpecialistStart
  \/ SpecialistEnd

SpecFanout == InitFree /\ [][NextFanout]_vars

\* a caller of the store asks for a status directly:
\* Database.update_task_status(task_id, status)
StoreUpdateTaskStatus ==
  \E t \in AllIds : \E s \in TaskStatus :
    /\ status' = update_task_status(status, t, s)
    /\ edges' = Changed(status, status')
    /\ lastOp' = [op |-> "update_task_status", task |-> t, res |-> s]
    /\ UNCHANGED <<deps, branch_name, worktree_path, retry_count, last_feedback,
                   validations, agents, gitVars, p4queue, fanVars, aclVars, repVars,
                   requeues>>

SpecStore == Init /\ [][StoreUpdateTaskStatus]_vars

\* the pipeline up to QA, with callers of the store that record and approve
\* access violations
NextAudit ==
  \/ DispatchTask
  \/ RunPhase2
  \/ RunPhase3
  \/ LogAccessViolation
  \/ ApproveAccessViolation

SpecAudit == Init /\ [][NextAudit]_vars

SpecPolicy == Init /\ [][MergeAccessConfigs \/ MergeReturn]_vars

\* every task but the first depends on the task created before it
Forward == [t \in Tasks |-> IF t = 1 THEN {} ELSE {t - 1}]

InitWatch == InitWith({Free, Forward})

\* the polling dispatcher and the phases that follow it
NextWatch ==
  \/ WatchIteration
  \/ WatchCall
  \/ RunPhase2
  \/ RunPhase3
  \/ MergeTask

SpecWatch == InitWatch /\ [][NextWatch]_vars

\* the same with dispatches that run to their end; polling goes on: a new
\* call follows a call that ended, and a dispatch that can succeed is not
\* failed by git for ever
NextPoll ==
  \/ Poll
  \/ WatchCall
  \/ RunPhase2
  \/ RunPhase3
  \/ MergeTask

FairPoll ==
  /\ InitWatch /\ [][NextPoll]_vars
  /\ WF_vars(WatchCall)
  /\ \A t \in Tasks : WF_vars(Poll /\ status'[t] = DISPATCHED)

\* the pipeline with the success path of merge_task taken statement by
\* statement
NextOrder ==
  \/ DispatchTask
  \/ RunPhase2
  \/ RunPhase3
  \/ MergeCleanup
  \/ MergeMark

SpecOrder == Init /\ [][NextOrder]_vars

\* the pipeline with every phase and the retry handler run again and again
FairPipeline ==
  /\ Init /\ [][Next]_vars
  /\ WF_vars(DispatchTask)
  /\ WF_vars(RunPhase2)
  /\ WF_vars(RunPhase3)
  /\ WF_vars(RunRetryHandler)
  /\ WF_vars(RunPhase4)
  /\ WF_vars(BatchMergeStep)

\* the polling dispatcher over tasks with a dependency on themselves or on
\* a cycle, with explicit dispatch requests and the phases that follow
NextStuckPoll ==
  \/ Poll
  \/ DispatchTask
  \/ RunPhase2
  \/ RunPhase3
  \/ RunRetryHandler

SpecStuckPoll == Init /\ [][NextStuckPoll]_vars

\* calls of watch_and_dispatch taken iteration by iteration, beside explicit
\* dispatch requests and the specialists; the loop of a call that is under
\* way goes on
NextLoop ==
  \/ WatchStart
  \/ WatchLoop
  \/ WatchReturn
  \/ DispatchTask
  \/ RunPhase2

FairLoop ==
  /\ InitWith(StuckChoices \cup {Free}) /\ [][NextLoop]_vars
  /\ WF_vars(WatchLoop)

NextRetry ==
  \/ DispatchTask
  \/ RunPhase2
  \/ RunPhase3
  \/ RunRetryHandler
  \/ RetryStop

SpecRetry == Init /\ [][NextRetry]_vars

SpecResearch == Init /\ [][BatchResearch \/ ResearchReturn]_vars

\* ====================================================== the claims, C1..C10

\* the status graph the pipeline is specified to follow; both ready states
\* may be dispatched
StateGraph ==
  { <<SPEC_READY, DISPATCHED>>, <<CAHIER_READY, DISPATCHED>>,
    <<DISPATCHED, SPECIALIST_WORKING>>, <<SPECIALIST_WORKING, CODE_DONE>>,
    <<CODE_DONE, VALIDATION_PENDING>>,
    <<VALIDATION_PENDING, VALIDATION_PASSED>>,
    <<VALIDATION_PENDING, VALIDATION_FAILED>>,
    <<VALIDATION_FAILED, CODE_DONE>>, <<VALIDATION_FAILED, FAILED>>,
    <<VALIDATION_PASSED, MERGED>>, <<VALIDATION_PASSED, MERGE_CONFLICT>> }

\* C1: every status change a pipeline operation makes is an edge of the
\* status graph: ready -> DISPATCHED -> WORKING -> CODE_DONE ->
\* VALIDATION_PENDING -> {VALIDATION_PASSED, VALIDATION_FAILED},
\* VALIDATION_FAILED -> {CODE_DONE, FAILED},
\* VALIDATION_PASSED -> {MERGED, MERGE_CONFLICT}.
C1_StatusChangesFollowGraph == edges \subseteq StateGraph

\* the status of the most recently created record of the given type, NULL
\* when the task has none
RECURSIVE LatestOf(_, _, _)
LatestOf(recs, type, i) ==
  IF i = 0 THEN NULL
  ELSE IF recs[i].validator_type = type THEN recs[i].status
  ELSE LatestOf(recs, type, i - 1)

LatestBothGo(v, t) ==
  /\ LatestOf(v[t], "logic", Len(v[t])) = GO
  /\ LatestOf(v[t], "tech", Len(v[t])) = GO

\* C3: a task's status becomes MERGED only when, at the time of the merge,
\* its latest logic validation and its latest tech validation are both go.
C3_MergedOnlyWhenLatestBothGo ==
  [][\A t \in Tasks :
       (status[t] # MERGED /\ status'[t] = MERGED) => LatestBothGo(validations, t)]_vars

\* C4: check_task_ready_for_merge is true exactly when the most recently
\* created logic record and the most recently created tech record are both
\* go, whatever older records say.
C4_GateIsLatestBothGo ==
  \A t \in Tasks :
    check_task_ready_for_merge(validations, t) <=> LatestBothGo(validations, t)

DepsMerged(t) == \A d \in deps[t] : d \in Tasks /\ status[d] = MERGED

\* C2: a task is never moved to DISPATCHED while one of its dependencies is
\* missing or not MERGED; the dispatch is then a no-op: the task keeps its
\* status and gets no branch and no workspace.
C2_NoDispatchWithUnmetDeps ==
  [][\A t \in Tasks :
       /\ (status[t] # DISPATCHED /\ status'[t] = DISPATCHED) => DepsMerged(t)
       /\ (lastOp'.op = "dispatch" /\ lastOp'.task = t /\ ~DepsMerged(t))
            => /\ lastOp'.res = "deps_unmet"
               /\ UNCHANGED <<status, branch_name, worktree_path, branches, worktrees>>]_vars

\* the dispatch of task 1 was refused while its dependency had passed QA but
\* was not merged yet
C2_Witness ==
  /\ lastOp = [op |-> "dispatch", task |-> 1, res |-> "deps_unmet"]
  /\ deps[1] = {NumTasks}
  /\ status[NumTasks] = VALIDATION_PASSED
  /\ status[1] = CAHIER_READY
  /\ branch_name[1] = NULL
  /\ worktrees[1] = 0

\* C5: no operation resolves a merge conflict by picking a side: every
\* commit on the integration branch is a clean merge, and a merge that
\* conflicts leaves the integration branch exactly as it was.
C5_NoSidePicked ==
  /\ [](\A i \in 1..Len(mainLine) : mainLine[i].kind = "merge")
  /\ [][(lastOp'.op = "merge" /\ lastOp'.res = "conflict") => mainLine' = mainLine]_vars

\* a merge of the last task has just ended in a conflict and none of its
\* commits is on the integration branch
C5_Witness ==
  /\ lastOp = [op |-> "merge", task |-> NumTasks, res |-> "conflict"]
  /\ status[NumTasks] = MERGE_CONFLICT
  /\ NumTasks \in ahead
  /\ \A i \in 1..Len(mainLine) : mainLine[i].task # NumTasks

C8_TerminalStatusesStay ==
  [][\A t \in Tasks : status[t] \in {MERGED, FAILED} => status'[t] = status[t]]_vars

\* C9: a request to set a task's status to a value that is not a successor
\* of its current status in the status graph is rejected: nothing changes.
C9_NonSuccessorRejected ==
  [][\A t \in Tasks :
       (lastOp'.op = "update_task_status" /\ lastOp'.task = t
          /\ <<status[t], lastOp'.res>> \notin StateGraph)
       => status'[t] = status[t]]_vars

\* C10: dispatching a task a second time never yields a second workspace:
\* the creation reuses the branch that exists and gives the same branch and
\* path instead of failing.
C10_SecondDispatchReuses ==
  /\ [](\A t \in Tasks : worktrees[t] <= 1)
  /\ [][\A t \in Tasks :
          (lastOp'.op = "dispatch" /\ lastOp'.task = t /\ t \in branches
             /\ lastOp'.res \notin {"deps_unmet", "git_error"})
          => /\ lastOp'.res = "ok_reused"
             /\ branches' = branches
             /\ worktrees'[t] = 1
             /\ branch_name'[t] = BranchOf(t)
             /\ worktree_path'[t] = PathOf(t)]_vars

C12_MergesSerialized ==
  /\ [](Cardinality({o \in running : o[1] = "merge"}) <= 1)
  /\ [][lastOp'.op = "merge_begin" => (running = {} /\ conflicted = {})]_vars

\* the second merge of a batch has started after the first one was finished
C12_Witness ==
  /\ running = {<<"merge", NumTasks>>}
  /\ lastOp = [op |-> "merge_begin", task |-> NumTasks, res |-> "started"]
  /\ status[1] \in {MERGED, MERGE_CONFLICT}
  /\ status[NumTasks] = VALIDATION_PASSED

\* ---------------------------------------------------- the claims, C13..C15
\* The place a path names for the agent of a validated access: a relative
\* path is taken from the worktree of the task, a '..' steps back to the
\* parent, symbolic links are followed.
RECURSIVE collapse(_, _)
collapse(parts, acc) ==
  IF parts = <<>> THEN acc
  ELSE IF Head(parts) = <<".", ".">>
       THEN collapse(Tail(parts),
                     IF acc = <<>> THEN acc ELSE SubSeq(acc, 1, Len(acc) - 1))
  ELSE collapse(Tail(parts), Append(acc, Head(parts)))

Location(a) ==
  LET p == Path(a.file_path)
      full == IF p.absolute THEN p.parts
              ELSE Path(WorktreeRoot(a.task)).parts \o p.parts
  IN resolve(a.links, collapse(full, <<>>), Cardinality(a.links)).parts

HasDotDot(a) ==
  \E i \in 1..Len(split(a.file_path, "/")) : split(a.file_path, "/")[i] = <<".", ".">>

InsideWorktree(a, t) == startswith(Location(a), Path(WorktreeRoot(t)).parts)

\* the path below the worktree of its task, with forward slashes
Below(a) ==
  str(SubSeq(Location(a), Len(Path(WorktreeRoot(a.task)).parts) + 1,
             Len(Location(a))))

MatchesBoth(a) ==
  /\ a.task # Ghost
  /\ ~HasDotDot(a)
  /\ InsideWorktree(a, a.task)
  /\ \E pattern \in a.exclude : matches_pattern(Below(a), pattern)
  /\ \E pattern \in a.allow : matches_pattern(Below(a), pattern)

\* C13: the decision on a path that matches an exclude pattern and an allow
\* pattern is denied_excluded; with allow a/** and exclude a/k.p the
\* decision on a/k.p is denied_excluded.
C13_ExclusionWins ==
  /\ MatchesBoth(access) => access.decision = DENIED_EXCLUDED
  /\ ( /\ access.file_path = <<"a", "/", "k", ".", "p">>
       /\ access.allow = {<<"a", "/", "*", "*">>}
       /\ access.exclude = {<<"a", "/", "k", ".", "p">>} )
     => access.decision = DENIED_EXCLUDED

C13_Witness ==
  /\ access.file_path = <<"a", "/", "k", ".", "p">>
  /\ access.allow = {<<"a", "/", "*", "*">>}
  /\ access.exclude = {<<"a", "/", "k", ".", "p">>}
  /\ MatchesBoth(access)
  /\ access.mode = LOG
  /\ access.decision = DENIED_EXCLUDED

\* C14: the decision on a path that has a '..' segment, or that names a
\* place outside the worktree of the task, is the traversal denial,
\* whatever the allow and exclude lists hold.
C14_TraversalDenied ==
  (access.task # Ghost /\ (HasDotDot(access) \/ ~InsideWorktree(access, access.task)))
  => access.decision = DENIED_PATH_TRAVERSAL

\* a linked entry leads out of the worktree and an allow pattern matches
\* the path as written
C14_Witness ==
  /\ access.task # Ghost
  /\ access.file_path = <<"l", "/", "c", ".", "p">>
  /\ access.allow = {<<"a">>, <<"l">>}
  /\ ~InsideWorktree(access, access.task)
  /\ matches_pattern(access.file_path, <<"l">>)
  /\ access.decision = DENIED_PATH_TRAVERSAL

\* C15: two tasks never have the same worktree path or branch name, and an
\* access validated for one task to a place inside the worktree of another
\* task is never allowed.
C15_CrossTaskDenied ==
  /\ \A t1 \in Tasks : \A t2 \in Tasks \ {t1} :
       /\ WorktreeRoot(t1) # WorktreeRoot(t2)
       /\ (worktree_path[t1] # NULL /\ worktree_path[t2] # NULL)
          => /\ worktree_path[t1] # worktree_path[t2]
             /\ branch_name[t1] # branch_name[t2]
  /\ access.task # Ghost
     => \A u \in Tasks \ {access.task} :
          InsideWorktree(access, u) => access.decision # ALLOWED

C15_Witness ==
  /\ \A t \in Tasks : worktree_path[t] # NULL
  /\ access.task = NumTasks
  /\ access.file_path = WorktreeRoot(1) \o <<"/", "c", ".", "p">>
  /\ access.allow = {<<"*", ".", "p">>}
  /\ InsideWorktree(access, 1)
  /\ access.decision = DENIED_PATH_TRAVERSAL

\* ---------------------------------------------------- the claims, C16..C20
\* C16: a run of the retry handler takes every validation_failed task:
\* below the retry limit its retry_count grows by one, the feedback built
\* from its no_go records is stored and its status becomes code_done; at
\* the limit its status becomes failed; none is left validation_failed.
C16_RetryHandlesEveryFailedTask ==
  [][lastOp'.op = "retry" =>
       \A t \in Tasks :
         status[t] = VALIDATION_FAILED =>
           /\ status'[t] # VALIDATION_FAILED
           /\ IF retry_count[t] < max_retries
                THEN /\ retry_count'[t] = retry_count[t] + 1
                     /\ last_feedback'[t] =
                          build_feedback(t, get_validations_for_task(validations, t))
                     /\ status'[t] = CODE_DONE
                ELSE status'[t] = FAILED]_vars

\* C17: the move to failed at the retry limit leaves retry_count, equal to
\* max_retries, and last_feedback as they are; from then on neither field
\* changes; last_feedback is the feedback stored by the last re-queue, the
\* one the final attempt was given.
C17_FailedKeepsRetryFields ==
  /\ [][\A t \in Tasks :
          (lastOp'.op = "retry" /\ status[t] # FAILED /\ status'[t] = FAILED)
          => /\ retry_count[t] = max_retries
             /\ retry_count'[t] = retry_count[t]
             /\ last_feedback'[t] = last_feedback[t]]_vars
  /\ [][\A t \in Tasks :
          retry_count[t] = max_retries
          => /\ retry_count'[t] = retry_count[t]
             /\ last_feedback'[t] = last_feedback[t]]_vars
  /\ [](\A t \in Tasks :
          retry_count[t] = max_retries
          => \E n \in 1..Len(validations[t]) :
               last_feedback[t] =
                 build_feedback(t, SubSeq(get_validations_for_task(validations, t), 1, n)))

\* a task failed at the limit, its last validation records made after the
\* feedback was stored
C17_Witness ==
  /\ status[NumTasks] = FAILED
  /\ lastOp.op = "retry"
  /\ retry_count[NumTasks] = max_retries
  /\ requeues[NumTasks] = max_retries
  /\ last_feedback[NumTasks] #
       build_feedback(NumTasks, get_validations_for_task(validations, NumTasks))

\* C18: a merge that met a conflict on the files F returned exactly the
\* files of F, and the conflict report written for it lists the same files.
C18_ConflictFilesReturned ==
  merge_conflict.task # Ghost
  => /\ merge_conflict.returned = merge_conflict.on
     /\ merge_conflict.reported = merge_conflict.on

\* C19: a failure in the operation of one task does not keep the phase
\* from the other tasks it found: phase 2 ends with a result for each, and
\* in the QA phase every coded task other than the failing one gets its
\* verdict.
C19_FailuresIsolated ==
  [][(lastOp'.op = "phase2" => lastOp'.res # "aborted")
     /\ (lastOp'.op = "qa"
        => \A t \in Tasks \ {lastOp'.task} :
             status[t] = CODE_DONE => status'[t] # CODE_DONE)]_vars

\* C20: the specialists of phase 2 that run at the same time are never more
\* than max_parallel_specialists, however many tasks wait and in whatever
\* order they end.
C20_FanoutBounded ==
  Cardinality({o \in running : o[1] = "implement"}) <= max_parallel_specialists

\* the limit is reached and a task waits for the semaphore
C20_Witness ==
  /\ Cardinality({o \in running : o[1] = "implement"}) = max_parallel_specialists
  /\ p2wait # {}
  /\ lastOp.op = "specialist_start"

\* ---------------------------------------------------- the claims, C21..C30
\* C21: with an empty allow list, the decision on a path inside the
\* worktree that has no '..' and matches no exclude pattern is allowed,
\* whatever the operation.
C21_EmptyAllowListAllows ==
  ( /\ access.task # Ghost
    /\ access.allow = {}
    /\ ~HasDotDot(access)
    /\ InsideWorktree(access, access.task)
    /\ \A pattern \in access.exclude : ~matches_pattern(Below(access), pattern) )
  => (access.decision = ALLOWED /\ ~access.raised)

\* a read of a/b/kxp under allow = [] and a non-empty exclude list, in block mode
C21_Witness ==
  /\ access.task # Ghost
  /\ access.allow = {}
  /\ access.exclude = {<<"a", "/", "k", ".", "p">>}
  /\ access.file_path = <<"a", "/", "b", "/", "k", "x", "p">>
  /\ access.operation = "read"
  /\ access.mode = BLOCK
  /\ access.decision = ALLOWED

C23_ViolationLeavesStatus ==
  \A t \in Tasks :
    ( /\ Idle
      /\ status[t] = CODE_DONE
      /\ \A u \in Tasks : Len(validations[u]) + 2 <= MaxValidations )
    => ENABLED (RunPhase3 /\ status'[t] = VALIDATION_PASSED)

\* C24: the access audit table is append-only: no step removes a row or
\* changes the task id, agent id, path, operation, decision or reason of
\* one; human_approved is the one field that changes, and only from not
\* approved to approved.
C24_AuditAppendOnly ==
  [][ /\ Len(access_violations') >= Len(access_violations)
      /\ \A i \in 1..Len(access_violations) :
           /\ [access_violations'[i] EXCEPT !.human_approved = TRUE]
              = [access_violations[i] EXCEPT !.human_approved = TRUE]
           /\ access_violations[i].human_approved
              => access_violations'[i].human_approved ]_vars

C24_Witness ==
  /\ Len(access_violations) = MaxAudit
  /\ access_violations[1].decision = DENIED_EXCLUDED
  /\ access_violations[1].human_approved
  /\ ~access_violations[MaxAudit].human_approved
  /\ lastOp.op = "qa"

\* the list r holds the elements of the list l, each once, in the order in
\* which they first occur in l
Deduped(r, l) ==
  /\ {r[i] : i \in 1..Len(r)} = {l[i] : i \in 1..Len(l)}
  /\ \A i \in 1..Len(r) : \A j \in 1..Len(r) : r[i] = r[j] => i = j
  /\ \A i \in 1..Len(r) : \A j \in 1..Len(r) :
       i < j => (CHOOSE m \in 1..Len(l) : l[m] = r[i] /\ \A n \in 1..(m - 1) : l[n] # r[i])
                < (CHOOSE m \in 1..Len(l) : l[m] = r[j] /\ \A n \in 1..(m - 1) : l[n] # r[j])

\* C25: the allow list and the exclude list of a merge are, as sets, the
\* unions of the lists of the two configurations, hold no pattern twice and
\* keep the patterns in the order of their first occurrence (task spec
\* first, template next); merging a configuration with itself or with an
\* absent or empty one gives its lists de-duplicated.
C25_MergeIsOrderedUnion ==
  merged.called =>
    \A key \in {"allow", "exclude"} :
      LET ListOf(o) == IF o = <<>> THEN <<>>
                       ELSE IF key \in DOMAIN o[1] THEN o[1][key] ELSE <<>>
          a == ListOf(merged.spec_access)
          b == ListOf(merged.template_access)
          r == merged.result[key]
      IN /\ {r[i] : i \in 1..Len(r)}
              = {a[i] : i \in 1..Len(a)} \cup {b[i] : i \in 1..Len(b)}
         /\ Deduped(r, a \o b)
         /\ (merged.template_access = merged.spec_access
             \/ merged.template_access \in {<<>>, << <<>> >>})
            => Deduped(r, a)
         /\ merged.spec_access \in {<<>>, << <<>> >>} => Deduped(r, b)

C25_Witness ==
  /\ merged.called
  /\ merged.spec_access = <<[allow |-> << <<"*", ".", "p">>, <<"*", ".", "p">> >>]>>
  /\ merged.template_access
       = <<[allow |-> << <<"a">>, <<"*", ".", "p">> >>, exclude |-> << <<"a">> >>]>>
  /\ merged.result = [allow |-> << <<"*", ".", "p">>, <<"a">> >>,
                      exclude |-> << <<"a">> >>]

C27_RestartCompletesDispatch ==
  [][\A t \in Tasks :
       ( /\ lastOp'.op = "watch"
         /\ dispatched_count < max_tasks
         /\ t \in Range(Slice)
         /\ worktrees[t] = 1
         /\ \A x \in deps[t] : x \in Tasks /\ status[x] = MERGED )
       => (status'[t] = DISPATCHED /\ worktrees'[t] = 1)]_vars

C29_CapBoundsCreation ==
  [][lastOp'.op = "watch" =>
       /\ Cardinality({t \in Tasks : worktrees'[t] > worktrees[t]}) <= max_tasks
       /\ Cardinality({t \in Tasks : worktrees'[t] > worktrees[t]})
            <= max_tasks - dispatched_count]_vars

\* the first iteration failed after it created the worktree of the first
\* task and left the second ready task alone
C29_Witness ==
  /\ lastOp.op = "watch"
  /\ deps = Free
  /\ \A t \in Tasks : status[t] = CAHIER_READY
  /\ worktrees[1] = 1
  /\ \A t \in Tasks \ {1} : t > max_tasks => worktrees[t] = 0
  /\ dispatched_count = 0

\* C30: the worktree of a task is destroyed only once the task is marked
\* merged (or failed): a dispatched task whose worktree no longer exists
\* has the status merged or failed, never validation_passed or another
\* status on the way.
C30_DestroyedOnlyWhenMerged ==
  \A t \in Tasks :
    (worktree_path[t] # NULL /\ worktrees[t] = 0) => status[t] \in {MERGED, FAILED}

\* ---------------------------------------------------- the claims, C31..C40
\* C31: when the merge prompt is answered no, the merge phase hands no task
\* to the merger and changes no status, branch name, worktree path or
\* repository state; the merge list of the phase is filled only by a run
\* whose prompt was answered yes.
C31_RefusalMergesNothing ==
  /\ [][(lastOp'.op = "phase4" /\ lastOp'.res = "cancelled")
        => /\ p4queue' = <<>>
           /\ UNCHANGED <<status, branch_name, worktree_path, gitVars>>]_vars
  /\ [][(p4queue = <<>> /\ p4queue' # <<>>)
        => (lastOp'.op = "phase4" /\ lastOp'.res = "approved")]_vars

C31_Witness ==
  /\ lastOp = [op |-> "phase4", task |-> Ghost, res |-> "cancelled"]
  /\ status[NumTasks] = VALIDATION_PASSED
  /\ p4queue = <<>>
  /\ worktrees[NumTasks] = 1

\* C32: a single '*' of a pattern matches inside one path segment only: a
\* pattern with a '*' and without '**' matches a path only when both have
\* the same number of segments, so with the allow list *.p alone the path
\* a/k.p of the worktree is not allowed ('**' patterns do reach across
\* segments).
C32_StarWithinSegment ==
  ( /\ access.task # Ghost
    /\ ~HasDotDot(access)
    /\ InsideWorktree(access, access.task) )
  => /\ \A pattern \in access.allow \cup access.exclude :
          ( /\ \E i \in 1..Len(pattern) : pattern[i] = "*"
            /\ \A i \in 1..(Len(pattern) - 1) : ~(pattern[i] = "*" /\ pattern[i + 1] = "*")
            /\ matches_pattern(Below(access), pattern) )
          => Len(split(Below(access), "/")) = Len(split(pattern, "/"))
     /\ ( /\ access.allow = {<<"*", ".", "p">>}
          /\ Below(access) = <<"a", "/", "k", ".", "p">> )
        => access.decision # ALLOWED

\* C33: batch_research returns one result per query, in the order of the
\* queries; no query is attempted more than max_retries times, and a query
\* that is not cached and whose calls all fail gives an empty result that
\* carries the error, the results of the other queries staying in place.
C33_BatchOneResultPerQuery ==
  research.called =>
    /\ Len(research.results) = Len(research.queries)
    /\ \A i \in 1..Len(research.queries) :
         /\ research.results[i].query = research.queries[i]
         /\ research.results[i].attempts <= gemini_max_retries
         /\ \A a \in 1..gemini_max_retries : research.outcomes[i][a] = "ok"
              => research.results[i].attempts <= a
         /\ (\A a \in 1..gemini_max_retries : research.outcomes[i][a] # "ok")
              => \/ /\ research.results[i].empty
                    /\ research.results[i].error \in {"TimeoutError", "RuntimeError", "OSError"}
                 \/ research.results[i].attempts = 0

C33_Witness ==
  /\ research.called
  /\ research.queries = <<"q1", "q2">>
  /\ research.outcomes[1] = [a \in 1..gemini_max_retries |-> "TimeoutError"]
  /\ research.outcomes[2][1] = "RuntimeError"
  /\ research.outcomes[2][gemini_max_retries] = "ok"
  /\ research.results[1].empty
  /\ research.results[1].attempts = gemini_max_retries
  /\ ~research.results[2].empty
  /\ research.results[2].attempts = gemini_max_retries

\* C34: every task's retry_count stays between 0 and max_retries and never
\* decreases, whatever the order of QA runs and retry-handler runs, the
\* runs that stop half-way included.
C34_RetryCountBounded ==
  /\ [](\A t \in Tasks : retry_count[t] >= 0 /\ retry_count[t] <= max_retries)
  /\ [][\A t \in Tasks : retry_count'[t] >= retry_count[t]]_vars

C34_Witness ==
  /\ retry_count[NumTasks] = max_retries
  /\ status[NumTasks] = VALIDATION_FAILED
  /\ lastOp.op = "qa"

\* C35: a task's retry_count equals the number of times the task went from
\* VALIDATION_FAILED back to CODE_DONE, also when the retry handler stopped
\* between increment_retry and update_task_status.
C35_RetriesEqualRequeues ==
  \A t \in Tasks : retry_count[t] = requeues[t]

\* C36: whenever a task is VALIDATION_PASSED the merge gate holds for it,
\* a task that failed an earlier validation cycle and was retried included.
C36_PassedImpliesGate ==
  \A t \in Tasks :
    status[t] = VALIDATION_PASSED => check_task_ready_for_merge(validations, t)

\* C37: with every phase and the retry handler run again and again, a task
\* whose implementation worker failed does not stay in the working status
\* for ever: some phase picks it up again.
C37_WorkingIsLeft ==
  \A t \in Tasks :
    (status[t] = SPECIALIST_WORKING) ~> (status[t] # SPECIALIST_WORKING)

\* the task depends on itself or lies on a dependency cycle
OnCycle(t) ==
  \E n \in 1..NumTasks : \E p \in [1..(n + 1) -> Tasks] :
    p[1] = t /\ p[n + 1] = t /\ \A i \in 1..n : p[i + 1] \in deps[p[i]]

\* C38: a task that depends on itself or lies on a dependency cycle stays
\* ready in every reachable state, and in a poll it takes no place from the
\* ready tasks whose dependencies are met: the first of those, up to what is
\* left of max_tasks, are handed to dispatch_task in that poll.
C38_CycleStaysReadyOthersGo ==
  /\ [](\A t \in Tasks : OnCycle(t) => status[t] = CAHIER_READY)
  /\ [][lastOp'.op = "watch" =>
          LET met == {t \in Tasks : /\ status[t] = CAHIER_READY
                                    /\ check_dependencies(status, deps[t])}
          IN \A t \in met :
               Cardinality({u \in met : u < t}) < max_tasks - dispatched_count
                 => t \in Range(Slice)]_vars

\* the first half of C38 on its own
C38_CycleStaysReady ==
  \A t \in Tasks : OnCycle(t) => status[t] = CAHIER_READY

\* the decision of AccessControlManager(access_config, worktree).
\* validate_file_access(file_path), access_config being None (<<>>) or a
\* dict (<<d>>) with or without its allow and exclude keys
decided_under(access_config, links, mode, file_path) ==
  LET get(key) ==
        IF access_config # <<>> /\ key \in DOMAIN access_config[1]
          THEN Range(access_config[1][key]) ELSE {}
  IN validate_file_access(WorktreeRoot(1), links, get("allow"), get("exclude"),
                          mode, file_path).decision

\* C39: a path that is denied_excluded under one of two policies is
\* denied_excluded under their merge.
C39_MergeKeepsExclusions ==
  merged.called =>
    \A file_path \in FilePaths(1) : \A links \in Links(1) : \A mode \in AccessMode :
      (\/ decided_under(merged.spec_access, links, mode, file_path) = DENIED_EXCLUDED
       \/ decided_under(merged.template_access, links, mode, file_path) = DENIED_EXCLUDED)
      => decided_under(<<merged.result>>, links, mode, file_path) = DENIED_EXCLUDED

C39_Witness ==
  /\ merged.called
  /\ merged.spec_access # <<>>
  /\ merged.template_access # <<>>
  /\ DOMAIN merged.spec_access[1] = {"allow", "exclude"}
  /\ DOMAIN merged.template_access[1] = {"allow", "exclude"}
  /\ merged.spec_access[1] = [allow |-> <<<<"a">>>>, exclude |-> <<<<"*", ".", "p">>>>]
  /\ merged.template_access[1] = [allow |-> <<<<"*", ".", "p">>>>, exclude |-> <<>>]
  /\ decided_under(merged.spec_access, {}, BLOCK, <<"c", ".", "p">>) = DENIED_EXCLUDED
  /\ decided_under(merged.template_access, {}, BLOCK, <<"c", ".", "p">>) = ALLOWED
  /\ decided_under(<<merged.result>>, {}, BLOCK, <<"c", ".", "p">>) = DENIED_EXCLUDED

\* C40: a call of watch_and_dispatch ends; it goes on to another poll only
\* when the poll found ready tasks and max_tasks is not reached, and makes at
\* most max_iterations polls; the count it returns is the number of tasks
\* the call moved to DISPATCHED and is at most max_tasks.
C40_WatchTerminates ==
  /\ (watch.pc = "loop") ~> (watch.pc = "returned")
  /\ [](watch.iteration <= max_iterations)
  /\ [][(watch.pc = "loop" /\ watch'.pc = "loop" /\ watch' # watch)
          => /\ get_tasks_by_status(status, CAHIER_READY) # <<>>
             /\ dispatched_count' < max_tasks
             /\ watch'.iteration < max_iterations]_vars
  /\ [](watch.pc = "returned"
          => /\ dispatched_count = Cardinality(watch.moved)
             /\ dispatched_count <= max_tasks
             /\ \A t \in watch.moved : status[t] # CAHIER_READY)

C40_Witness ==
  /\ watch.pc = "returned"
  /\ watch.why = "iterations"
  /\ watch.iteration = max_iterations
  /\ dispatched_count = 0
  /\ status[1] = CAHIER_READY
  /\ ~check_dependencies(status, deps[1])
====
